---------------------------- MODULE Spec2Model ----------------------------
(***************************************************************************)
(* Model of scripts/link-checker.js (class LinkChecker): the run of the    *)
(* link checker against a local server and the local disk, and its pure    *)
(* helpers normalizeLink, isInternalLink and extractLinks.                 *)
(* JavaScript strings are TLA+ strings; TLC evaluates Len, SubSeq and \o   *)
(* on them character by character.                                         *)
(***************************************************************************)
EXTENDS Integers, Sequences, FiniteSets, TLC

VARIABLES
    pc,             \* position of run(): which await or phase comes next
    serverRunning,  \* this.serverRunning
    brokenLinks,    \* this.brokenLinks: the Findings, in push order
    checkedLinks,   \* this.checkedLinks: the Set of links already seen
    pageIdx,        \* index of the for..of loop of run() over PAGES_TO_CHECK
    links,          \* links of the current page not yet iterated by checkPageLinks
    requests,       \* every fetch() issued so far, in order
    response,       \* what the last awaited fetch() settled to (response or error)
    disk,           \* the files under process.cwd() that exist when
                    \* checkStaticFiles looks (no file is looked at before)
    console,        \* the lines displayResults has printed
    displayed,      \* how many times displayResults has run
    firstPage,      \* for every link extractLinks has returned so far, the
                    \* index of the first seed page it was returned for
    raw,            \* NormSpec: the link under test
    once,           \* NormSpec: <<normalizeLink(raw)>> once computed
    twice,          \* NormSpec: <<normalizeLink(normalizeLink(raw))>> once computed
    prefixed,       \* NormSpec: <<normalizeLink("/blog-monakit" \o raw)>> once computed
    hrefs,          \* ExtractSpec: the href values written into html
    html,           \* ExtractSpec: the HTML text under test
    extracted       \* ExtractSpec: <<extractLinks(html)>> once computed

crawlVars == <<pc, serverRunning, brokenLinks, checkedLinks, pageIdx, links,
               requests, response, disk, console, displayed, firstPage>>
normVars == <<raw, once, twice, prefixed>>
extractVars == <<hrefs, html, extracted>>
vars == <<pc, serverRunning, brokenLinks, checkedLinks, pageIdx, links,
          requests, response, disk, console, displayed, firstPage, raw, once,
          twice, prefixed, hrefs, html, extracted>>

---------------------------------------------------------------------------
(* Configuration of the script *)

BASE_URL == "http://localhost:4321/blog-monakit"

TIMEOUT == 5000

PAGES_TO_CHECK ==
    << "/", "/blogs", "/investment-results",
       "/blogs/diversified-investment-feature-complete" >>

FILES_TO_CHECK ==
    << "src/pages/index.astro", "src/pages/blogs/index.astro",
       "src/pages/investment-results/index.astro", "src/layouts/Layout.astro" >>

\* the local list of checkStaticFiles
staticFiles ==
    << "public/enhanced_dividend_result_20251016_145023.html",
       "public/netnet_result.html" >>

\* the site's base path: the path part of BASE_URL, the literal that
\* normalizeLink replaces
BASE_PATH == "/blog-monakit"

---------------------------------------------------------------------------
(* Bounds *)

\* seed pages processed by a run: the first MaxPages entries of PAGES_TO_CHECK
MaxPages == 2

\* anchors in one HTML text
MaxAnchors == 2

\* pieces concatenated into a link given to normalizeLink
MaxPieces == 4

\* entries of FILES_TO_CHECK that may exist on the disk: the first
\* MaxSeedFiles; the others never exist
MaxSeedFiles == 1

---------------------------------------------------------------------------
(* String helpers: String.prototype.startsWith and String.prototype.replace *)

Range(s) == { s[i] : i \in DOMAIN s }

startsWith(s, p) ==
    /\ Len(s) >= Len(p)
    /\ SubSeq(s, 1, Len(p)) = p

\* index of the first occurrence of p in s, 0 when there is none
indexOf(s, p) ==
    LET hits == { i \in 1..(Len(s) - Len(p) + 1) : SubSeq(s, i, i + Len(p) - 1) = p }
    IN  IF hits = {} THEN 0 ELSE CHOOSE i \in hits : \A j \in hits : i <= j

\* s.replace(p, r) with a string pattern: the first occurrence only
replace(s, p, r) ==
    LET i == indexOf(s, p)
    IN  IF i = 0 THEN s
        ELSE SubSeq(s, 1, i - 1) \o r \o SubSeq(s, i + Len(p), Len(s))

---------------------------------------------------------------------------
(* LinkChecker.normalizeLink *)

normalizeLink(link) ==
    IF startsWith(link, "/blog-monakit/") THEN replace(link, "/blog-monakit", "")
    ELSE IF startsWith(link, "/") THEN link
    ELSE "/" \o link

(* LinkChecker.isInternalLink *)

isInternalLink(link) ==
    \/ startsWith(link, "/blog-monakit/")
    \/ startsWith(link, "/")
    \/ startsWith(link, "./")
    \/ startsWith(link, "../")

(* LinkChecker.extractLinks: the scan of /href=["']([^"']+)["']/g *)

isQuote(c) == c = "\"" \/ c = "'"

\* end of the longest run of non-quote characters that starts at index i
\* (i - 1 when the run is empty)
RECURSIVE runEnd(_, _)
runEnd(text, i) ==
    IF i > Len(text) \/ isQuote(SubSeq(text, i, i)) THEN i - 1
    ELSE runEnd(text, i + 1)

\* the regular expression anchored at index i: the index of the closing
\* quote of the match, 0 when there is no match at i
matchAt(text, i) ==
    IF /\ i + 5 <= Len(text)
       /\ SubSeq(text, i, i + 4) = "href="
       /\ isQuote(SubSeq(text, i + 5, i + 5))
    THEN LET e == runEnd(text, i + 6)
         IN  IF e >= i + 6 /\ e + 1 <= Len(text) THEN e + 1 ELSE 0
    ELSE 0

\* the while loop over hrefRegex.exec: the capture group of every match,
\* from index i on, left to right, each search resuming after the last match
RECURSIVE hrefMatches(_, _)
hrefMatches(text, i) ==
    IF i > Len(text) THEN << >>
    ELSE LET e == matchAt(text, i)
         IN  IF e = 0 THEN hrefMatches(text, i + 1)
             ELSE << SubSeq(text, i + 6, e - 1) >> \o hrefMatches(text, e + 1)

\* [...new Set(list)]: the first occurrence of each value, in order
RECURSIVE unique(_)
unique(list) ==
    IF list = << >> THEN << >>
    ELSE LET init == unique(SubSeq(list, 1, Len(list) - 1))
             last == list[Len(list)]
         IN  IF last \in Range(init) THEN init ELSE Append(init, last)

extractLinks(text) ==
    unique(SelectSeq(hrefMatches(text, 1), isInternalLink))

---------------------------------------------------------------------------
(* The environment: the server's answers and the inputs of the helpers *)

\* HTTP status codes, written as numerals so that a Finding's status is
\* comparable with 'TIMEOUT' and 'NOT_FOUND'
Statuses == { "200", "404", "500" }

\* Response.ok: the status is in the range 200-299
ok(status) == status = "200"

\* messages of the errors fetch() throws
ErrorMessages == { "fetch failed", "The operation was aborted" }

\* href values of the pages the server renders
PageHrefs == { "/x", "/blog-monakit/x", "../y", "#top" }

Anchor(h) == "<a href=\"" \o h \o "\">"

RECURSIVE Concats(_, _)
\* the concatenations of at most n strings of the set parts
Concats(parts, n) ==
    IF n = 0 THEN { "" }
    ELSE LET shorter == Concats(parts, n - 1)
         IN  shorter \cup { s \o p : s \in shorter, p \in parts }

\* the HTML texts response.text() may resolve to
PageHtmls == Concats({ Anchor(h) : h \in PageHrefs }, MaxAnchors)

\* what a fetch() may do: resolve to a response or throw
Outcomes ==
    { [kind |-> "response", status |-> s] : s \in Statuses }
    \cup { [kind |-> "throw", message |-> m] : m \in ErrorMessages }

\* the links normalizeLink is applied to: concatenations of these pieces
LinkPieces == { "/blog-monakit", "/", ".", "x" }

Links == Concats(LinkPieces, MaxPieces)

\* href values of the HTML texts extractLinks is applied to
TestHrefs ==
    { "/blog-monakit/a", "/a", "./a", "../a", "a", "//cdn.example.com/a.js",
      "https://example.com/", "mailto:a@example.com", "#top" }

\* the sequences of at most n elements of the set S
RECURSIVE SeqsUpTo(_, _)
SeqsUpTo(S, n) ==
    IF n = 0 THEN { << >> }
    ELSE LET shorter == SeqsUpTo(S, n - 1)
         IN  shorter \cup { Append(q, x) : q \in shorter, x \in S }

\* the HTML texts that carry the href values hs, in order, each in single
\* or in double quotes
RECURSIVE Renderings(_)
Renderings(hs) ==
    IF hs = << >> THEN { "" }
    ELSE { "<a href=" \o q \o Head(hs) \o q \o ">" \o rest :
               q \in { "\"", "'" }, rest \in Renderings(Tail(hs)) }

\* the files that may exist on the disk
AllFiles ==
    Range(SubSeq(FILES_TO_CHECK, 1, MaxSeedFiles)) \cup Range(staticFiles)

Pages == SubSeq(PAGES_TO_CHECK, 1, MaxPages)

---------------------------------------------------------------------------
(* LinkChecker: constructor and run *)

\* the object checkPageLinks pushes for a seed page answered with a non-ok
\* status
pageFinding(page, status) ==
    [page |-> page, link |-> page, status |-> status, type |-> "page"]

\* the object checkLink pushes for a link answered with a non-ok status
linkFinding(sourcePage, absoluteLink, status) ==
    [page |-> sourcePage, link |-> absoluteLink, status |-> status,
     type |-> "link"]

\* timeoutFinding with the link as written in the page
timeoutFinding_RawLink(sourcePage, link, message) ==
    [page |-> sourcePage, link |-> link, status |-> "TIMEOUT",
     type |-> "link", error |-> message]

\* the object the catch block of checkLink pushes
timeoutFinding(sourcePage, link, message) ==
    [page |-> sourcePage, link |-> normalizeLink(link), status |-> "TIMEOUT",
     type |-> "link", error |-> message]

\* the object checkStaticFiles pushes for a file that does not exist
fileFinding(file) ==
    [page |-> "static", link |-> file, status |-> "NOT_FOUND", type |-> "file"]

GET(url) == [method |-> "GET", url |-> url]
HEAD(url) == [method |-> "HEAD", url |-> url, timeout |-> TIMEOUT]

Idle ==
    /\ raw = "" /\ once = << >> /\ twice = << >> /\ prefixed = << >>
    /\ hrefs = << >> /\ html = "" /\ extracted = << >>

Init ==
    /\ pc = "start"
    /\ brokenLinks = << >>
    /\ checkedLinks = {}
    /\ serverRunning = FALSE
    /\ pageIdx = 1
    /\ links = << >>
    /\ requests = << >>
    /\ response = [kind |-> "none"]
    /\ disk = {}
    /\ console = << >>
    /\ displayed = 0
    /\ firstPage = << >>
    /\ Idle

\* run enters checkServerStatus, which awaits fetch(`${BASE_URL}/`)
CheckServerStatus ==
    /\ pc = "start"
    /\ requests' = Append(requests, GET(BASE_URL \o "/"))
    /\ pc' = "probe"
    /\ UNCHANGED <<serverRunning, brokenLinks, checkedLinks, pageIdx, links,
                   response, disk, console, displayed>>
    /\ UNCHANGED <<firstPage, normVars, extractVars>>

\* the probe's fetch settles: response.ok sets serverRunning, anything else
\* (a non-ok response throws inside the try) is caught and clears it
ServerStatusSettles ==
    /\ pc = "probe"
    /\ \E o \in Outcomes :
          /\ response' = o
          /\ serverRunning' = (o.kind = "response" /\ ok(o.status))
    /\ pc' = "pages"
    /\ UNCHANGED <<brokenLinks, checkedLinks, pageIdx, links, requests,
                   disk, console, displayed>>
    /\ UNCHANGED <<firstPage, normVars, extractVars>>

\* checkPageLinks(page) with the server not running: returns at once
CheckPageLinksSkip ==
    /\ pc = "pages"
    /\ pageIdx <= Len(Pages)
    /\ ~serverRunning
    /\ pageIdx' = pageIdx + 1
    /\ UNCHANGED <<pc, serverRunning, brokenLinks, checkedLinks, links,
                   requests, response, disk, console, displayed>>
    /\ UNCHANGED <<firstPage, normVars, extractVars>>

\* CheckPageLinks without the early return on !this.serverRunning
CheckPageLinks_NoServerGuard ==
    /\ pc = "pages"
    /\ pageIdx <= Len(Pages)
    /\ requests' = Append(requests, GET(BASE_URL \o Pages[pageIdx]))
    /\ pc' = "page"
    /\ UNCHANGED <<serverRunning, brokenLinks, checkedLinks, pageIdx, links,
                   response, disk, console, displayed>>
    /\ UNCHANGED <<firstPage, normVars, extractVars>>

\* checkPageLinks(page) awaits fetch(`${BASE_URL}${page}`)
CheckPageLinks ==
    /\ pc = "pages"
    /\ pageIdx <= Len(Pages)
    /\ serverRunning
    /\ requests' = Append(requests, GET(BASE_URL \o Pages[pageIdx]))
    /\ pc' = "page"
    /\ UNCHANGED <<serverRunning, brokenLinks, checkedLinks, pageIdx, links,
                   response, disk, console, displayed>>
    /\ UNCHANGED <<firstPage, normVars, extractVars>>

\* PageSettles without the return after the 'page' Finding is pushed
PageSettles_NoReturn ==
    /\ pc = "page"
    /\ \E o \in Outcomes :
          /\ response' = o
          /\ LET page == Pages[pageIdx]
             IN  IF o.kind = "throw"
                 THEN /\ pc' = "pages"
                      /\ pageIdx' = pageIdx + 1
                      /\ UNCHANGED brokenLinks
                 ELSE /\ brokenLinks' =
                             IF ~ok(o.status)
                             THEN Append(brokenLinks, pageFinding(page, o.status))
                             ELSE brokenLinks
                      /\ pc' = "text"
                      /\ UNCHANGED pageIdx
    /\ UNCHANGED <<serverRunning, checkedLinks, links, requests, disk,
                   console, displayed>>
    /\ UNCHANGED <<firstPage, normVars, extractVars>>

\* the page's fetch settles: a throw is caught and logged; a non-ok response
\* pushes a 'page' Finding and returns; an ok response has its text awaited
PageSettles ==
    /\ pc = "page"
    /\ \E o \in Outcomes :
          /\ response' = o
          /\ LET page == Pages[pageIdx]
             IN  IF o.kind = "throw"
                 THEN /\ pc' = "pages"
                      /\ pageIdx' = pageIdx + 1
                      /\ UNCHANGED brokenLinks
                 ELSE IF ~ok(o.status)
                 THEN /\ brokenLinks' = Append(brokenLinks,
                             pageFinding(page, o.status))
                      /\ pc' = "pages"
                      /\ pageIdx' = pageIdx + 1
                 ELSE /\ pc' = "text"
                      /\ UNCHANGED <<brokenLinks, pageIdx>>
    /\ UNCHANGED <<serverRunning, checkedLinks, links, requests, disk,
                   console, displayed>>
    /\ UNCHANGED <<firstPage, normVars, extractVars>>

\* await response.text() settles: the links of the HTML are extracted for the
\* for..of loop
TextSettles ==
    /\ pc = "text"
    /\ \E text \in PageHtmls :
          /\ links' = extractLinks(text)
          /\ firstPage' =
                 [l \in DOMAIN firstPage \cup Range(extractLinks(text)) |->
                     IF l \in DOMAIN firstPage THEN firstPage[l] ELSE pageIdx]
    /\ pc' = "links"
    /\ UNCHANGED <<serverRunning, brokenLinks, checkedLinks, pageIdx,
                   requests, response, disk, console, displayed>>
    /\ UNCHANGED <<normVars, extractVars>>

\* await response.text() throws: caught and logged like a thrown fetch
TextThrows ==
    /\ pc = "text"
    /\ pc' = "pages"
    /\ pageIdx' = pageIdx + 1
    /\ UNCHANGED <<serverRunning, brokenLinks, checkedLinks, links, requests,
                   response, disk, console, displayed>>
    /\ UNCHANGED <<firstPage, normVars, extractVars>>

\* PageLinksDone with checkedLinks emptied at the end of each page
PageLinksDone_ClearsChecked ==
    /\ pc = "links"
    /\ links = << >>
    /\ pc' = "pages"
    /\ pageIdx' = pageIdx + 1
    /\ checkedLinks' = {}
    /\ UNCHANGED <<serverRunning, brokenLinks, links, requests,
                   response, disk, console, displayed>>
    /\ UNCHANGED <<firstPage, normVars, extractVars>>

\* the for..of loop over links is exhausted: checkPageLinks returns
PageLinksDone ==
    /\ pc = "links"
    /\ links = << >>
    /\ pc' = "pages"
    /\ pageIdx' = pageIdx + 1
    /\ UNCHANGED <<serverRunning, brokenLinks, checkedLinks, links, requests,
                   response, disk, console, displayed>>
    /\ UNCHANGED <<firstPage, normVars, extractVars>>

\* checkLink(sourcePage, link) on a link already in checkedLinks: returns
CheckLinkSeen ==
    /\ pc = "links"
    /\ links # << >>
    /\ Head(links) \in checkedLinks
    /\ links' = Tail(links)
    /\ UNCHANGED <<pc, serverRunning, brokenLinks, checkedLinks, pageIdx,
                   requests, response, disk, console, displayed>>
    /\ UNCHANGED <<firstPage, normVars, extractVars>>

\* CheckLink without this.checkedLinks.add(link)
CheckLink_NoAdd ==
    /\ pc = "links"
    /\ links # << >>
    /\ Head(links) \notin checkedLinks
    /\ requests' = Append(requests, HEAD(BASE_URL \o normalizeLink(Head(links))))
    /\ pc' = "link"
    /\ UNCHANGED <<serverRunning, brokenLinks, checkedLinks, pageIdx, links,
                   response, disk, console, displayed>>
    /\ UNCHANGED <<firstPage, normVars, extractVars>>

\* checkLink(sourcePage, link) on a new link: adds it to checkedLinks and
\* awaits the HEAD fetch of `${BASE_URL}${absoluteLink}`
CheckLink ==
    /\ pc = "links"
    /\ links # << >>
    /\ Head(links) \notin checkedLinks
    /\ checkedLinks' = checkedLinks \cup { Head(links) }
    /\ requests' = Append(requests, HEAD(BASE_URL \o normalizeLink(Head(links))))
    /\ pc' = "link"
    /\ UNCHANGED <<serverRunning, brokenLinks, pageIdx, links, response,
                   disk, console, displayed>>
    /\ UNCHANGED <<firstPage, normVars, extractVars>>

\* LinkSettles with the throw of the HEAD fetch left uncaught by checkLink
\* and checkPageLinks
LinkSettles_Rethrows ==
    /\ pc = "link"
    /\ \E o \in Outcomes :
          /\ response' = o
          /\ LET sourcePage == Pages[pageIdx]
                 link == Head(links)
                 absoluteLink == normalizeLink(link)
             IN  IF o.kind = "throw"
                 THEN /\ UNCHANGED <<brokenLinks, links>>
                      /\ pc' = "catch"
                 ELSE /\ brokenLinks' =
                             IF ~ok(o.status)
                             THEN Append(brokenLinks,
                                      linkFinding(sourcePage, absoluteLink, o.status))
                             ELSE brokenLinks
                      /\ links' = Tail(links)
                      /\ pc' = "links"
    /\ UNCHANGED <<serverRunning, checkedLinks, pageIdx, requests, disk,
                   console, displayed>>
    /\ UNCHANGED <<firstPage, normVars, extractVars>>

\* the HEAD fetch settles: a non-ok response and a throw each push a 'link'
\* Finding; the loop of checkPageLinks moves to the next link
LinkSettles ==
    /\ pc = "link"
    /\ \E o \in Outcomes :
          /\ response' = o
          /\ LET sourcePage == Pages[pageIdx]
                 link == Head(links)
                 absoluteLink == normalizeLink(link)
             IN  IF o.kind = "throw"
                 THEN brokenLinks' = Append(brokenLinks,
                          timeoutFinding(sourcePage, link, o.message))
                 ELSE IF ~ok(o.status)
                 THEN brokenLinks' = Append(brokenLinks,
                          linkFinding(sourcePage, absoluteLink, o.status))
                 ELSE UNCHANGED brokenLinks
    /\ links' = Tail(links)
    /\ pc' = "links"
    /\ UNCHANGED <<serverRunning, checkedLinks, pageIdx, requests, disk,
                   console, displayed>>
    /\ UNCHANGED <<firstPage, normVars, extractVars>>

\* the Findings checkStaticFiles pushes for the files list[i..], given the
\* set existing of the files fs.existsSync finds
RECURSIVE missingFindings(_, _, _)
missingFindings(list, i, existing) ==
    IF i > Len(list) THEN << >>
    ELSE (IF list[i] \in existing THEN << >>
          ELSE << fileFinding(list[i]) >>)
         \o missingFindings(list, i + 1, existing)

\* CheckStaticFiles reached only when the server is running
CheckStaticFiles_OnlyWithServer ==
    /\ pc = "pages"
    /\ pageIdx > Len(Pages)
    /\ serverRunning
    /\ \E existing \in SUBSET AllFiles :
          /\ disk' = existing
          /\ brokenLinks' = brokenLinks \o missingFindings(staticFiles, 1, existing)
    /\ pc' = "report"
    /\ UNCHANGED <<serverRunning, checkedLinks, pageIdx, links, requests,
                   response, console, displayed>>
    /\ UNCHANGED <<firstPage, normVars, extractVars>>

\* CheckStaticFiles putting its Findings in front of the recorded ones
CheckStaticFiles_Prepends ==
    /\ pc = "pages"
    /\ pageIdx > Len(Pages)
    /\ \E existing \in SUBSET AllFiles :
          /\ disk' = existing
          /\ brokenLinks' = missingFindings(staticFiles, 1, existing) \o brokenLinks
    /\ pc' = "report"
    /\ UNCHANGED <<serverRunning, checkedLinks, pageIdx, links, requests,
                   response, console, displayed>>
    /\ UNCHANGED <<firstPage, normVars, extractVars>>

\* the for..of loop of run() is exhausted: checkStaticFiles(), on whatever
\* files the disk holds at that moment
CheckStaticFiles ==
    /\ pc = "pages"
    /\ pageIdx > Len(Pages)
    /\ \E existing \in SUBSET AllFiles :
          /\ disk' = existing
          /\ brokenLinks' = brokenLinks \o missingFindings(staticFiles, 1, existing)
    /\ pc' = "report"
    /\ UNCHANGED <<serverRunning, checkedLinks, pageIdx, links, requests,
                   response, console, displayed>>
    /\ UNCHANGED <<firstPage, normVars, extractVars>>

\* the block displayResults prints for one Finding
block(broken, index) ==
    << [line |-> "type", index |-> index, value |-> broken.type],
       [line |-> "page", value |-> broken.page],
       [line |-> "link", value |-> broken.link],
       [line |-> "status", value |-> broken.status] >>
    \o (IF "error" \in DOMAIN broken /\ broken.error # ""
        THEN << [line |-> "error", value |-> broken.error] >> ELSE << >>)
    \o << [line |-> "blank"] >>

RECURSIVE blocks(_, _)
blocks(list, i) ==
    IF i > Len(list) THEN << >>
    ELSE block(list[i], i) \o blocks(list, i + 1)

\* the two lines every report starts with
heading == << [line |-> "title"], [line |-> "rule"] >>

\* the four lines a report with Findings ends with
remediation ==
    << [line |-> "hints"],
       [line |-> "hint", value |-> "missing page"],
       [line |-> "hint", value |-> "404"],
       [line |-> "hint", value |-> "timeout"] >>

\* displayResults without the return after the success line
DisplayResults_NoEarlyReturn ==
    /\ pc = "report"
    /\ console' =
          console \o heading
          \o (IF Len(brokenLinks) = 0
              THEN << [line |-> "success"] >> ELSE << >>)
          \o << [line |-> "count", count |-> Len(brokenLinks)] >>
          \o blocks(brokenLinks, 1)
          \o remediation
    /\ displayed' = displayed + 1
    /\ pc' = "done"
    /\ UNCHANGED <<serverRunning, brokenLinks, checkedLinks, pageIdx, links,
                   requests, response, disk>>
    /\ UNCHANGED <<firstPage, normVars, extractVars>>

\* displayResults()
DisplayResults ==
    /\ pc = "report"
    /\ console' =
          IF Len(brokenLinks) = 0
          THEN console \o heading \o << [line |-> "success"] >>
          ELSE console \o heading
               \o << [line |-> "count", count |-> Len(brokenLinks)] >>
               \o blocks(brokenLinks, 1)
               \o remediation
    /\ displayed' = displayed + 1
    /\ pc' = "done"
    /\ UNCHANGED <<serverRunning, brokenLinks, checkedLinks, pageIdx, links,
                   requests, response, disk>>
    /\ UNCHANGED <<firstPage, normVars, extractVars>>

Next ==
    \/ CheckServerStatus
    \/ ServerStatusSettles
    \/ CheckPageLinksSkip
    \/ CheckPageLinks
    \/ PageSettles
    \/ TextSettles
    \/ TextThrows
    \/ PageLinksDone
    \/ CheckLinkSeen
    \/ CheckLink
    \/ LinkSettles
    \/ CheckStaticFiles
    \/ DisplayResults

Spec == Init /\ [][Next]_vars

\* every await settles and every synchronous step runs
FairSpec == Spec /\ WF_vars(Next)

---------------------------------------------------------------------------
(* A run in which process.cwd() may throw: the one call of run's try block
   that is neither awaited inside a try of its own nor unable to throw *)

\* checkStaticFiles() when process.cwd() throws at the i-th file: the files
\* before it have been tested, the error leaves checkStaticFiles and run's
\* try block
CheckStaticFilesThrows ==
    /\ pc = "pages"
    /\ pageIdx > Len(Pages)
    /\ \E i \in DOMAIN staticFiles :
       \E existing \in SUBSET Range(SubSeq(staticFiles, 1, i - 1)) :
          /\ disk' = existing
          /\ brokenLinks' = brokenLinks
                 \o missingFindings(SubSeq(staticFiles, 1, i - 1), 1, existing)
    /\ pc' = "catch"
    /\ UNCHANGED <<serverRunning, checkedLinks, pageIdx, links, requests,
                   response, console, displayed>>
    /\ UNCHANGED <<firstPage, normVars, extractVars>>

\* the catch block of run: console.error and process.exit(1)
RunCatch ==
    /\ pc = "catch"
    /\ console' = Append(console, [line |-> "fatal"])
    /\ pc' = "exit1"
    /\ UNCHANGED <<serverRunning, brokenLinks, checkedLinks, pageIdx, links,
                   requests, response, disk, displayed>>
    /\ UNCHANGED <<firstPage, normVars, extractVars>>

FatalNext ==
    \/ Next
    \/ CheckStaticFilesThrows
    \/ RunCatch

FatalSpec == Init /\ [][FatalNext]_vars

---------------------------------------------------------------------------
(* normalizeLink on its own: one link, normalized once, twice, and with the
   base path in front *)

CrawlIdle ==
    /\ serverRunning = FALSE /\ brokenLinks = << >> /\ checkedLinks = {}
    /\ pageIdx = 1 /\ links = << >> /\ requests = << >> /\ disk = {}
    /\ response = [kind |-> "none"]
    /\ console = << >> /\ displayed = 0 /\ firstPage = << >>

NormInit ==
    /\ pc = "normalize"
    /\ raw \in Links
    /\ once = << >> /\ twice = << >> /\ prefixed = << >>
    /\ hrefs = << >> /\ html = "" /\ extracted = << >>
    /\ CrawlIdle

NormalizeOnce ==
    /\ pc = "normalize"
    /\ once = << >>
    /\ once' = << normalizeLink(raw) >>
    /\ UNCHANGED <<raw, twice, prefixed>>
    /\ UNCHANGED <<crawlVars, extractVars>>

NormalizeTwice ==
    /\ pc = "normalize"
    /\ once # << >>
    /\ twice = << >>
    /\ twice' = << normalizeLink(once[1]) >>
    /\ UNCHANGED <<raw, once, prefixed>>
    /\ UNCHANGED <<crawlVars, extractVars>>

NormalizePrefixed ==
    /\ pc = "normalize"
    /\ prefixed = << >>
    /\ prefixed' = << normalizeLink(BASE_PATH \o raw) >>
    /\ UNCHANGED <<raw, once, twice>>
    /\ UNCHANGED <<crawlVars, extractVars>>

NormNext ==
    \/ NormalizeOnce
    \/ NormalizeTwice
    \/ NormalizePrefixed

NormSpec == NormInit /\ [][NormNext]_vars

---------------------------------------------------------------------------
(* extractLinks on its own: one HTML text *)

ExtractInit ==
    /\ pc = "extract"
    /\ hrefs \in SeqsUpTo(TestHrefs, MaxAnchors)
    /\ html \in Renderings(hrefs)
    /\ extracted = << >>
    /\ raw = "" /\ once = << >> /\ twice = << >> /\ prefixed = << >>
    /\ CrawlIdle

ExtractLinks ==
    /\ pc = "extract"
    /\ extracted = << >>
    /\ extracted' = << extractLinks(html) >>
    /\ UNCHANGED <<hrefs, html>>
    /\ UNCHANGED <<crawlVars, normVars>>

ExtractNext == ExtractLinks

ExtractSpec == ExtractInit /\ [][ExtractNext]_vars

---------------------------------------------------------------------------
(* Properties of a run *)

Findings == { brokenLinks[k] : k \in DOMAIN brokenLinks }

\* the positions in requests of the HEAD requests, of the GET requests
HeadRequests == { k \in DOMAIN requests : requests[k].method = "HEAD" }
GetRequests == { k \in DOMAIN requests : requests[k].method = "GET" }

\* the probe has settled and found no running server
ProbeFailed == pc \notin { "start", "probe" } /\ ~serverRunning

\* the step in which the fetch of the current seed page settles
PageStep == pc = "page" /\ pc' # "page"

\* the step in which the HEAD fetch of the current link settles
LinkStep == pc = "link" /\ pc' # "link"

\* C1: every Normalized Link is the target of at most one HEAD request of
\* the run, whatever raw forms the pages use for it.
C1_OneCheckPerNormalizedLink ==
    \A i, j \in HeadRequests :
        requests[i].url = requests[j].url => i = j

\* C2: once the probe has failed the only request of the run is the probe
\* itself (no seed-page GET, no link HEAD); checkStaticFiles still runs, and
\* when it has run the Findings are exactly those of the missing static files.
C2_ProbeFailureSkipsNetwork ==
    /\ [](ProbeFailed =>
             /\ requests = << GET(BASE_URL \o "/") >>
             /\ pc \in { "report", "done" } =>
                   /\ \A i \in DOMAIN staticFiles :
                         staticFiles[i] \notin disk =>
                             fileFinding(staticFiles[i]) \in Findings
                   /\ Len(brokenLinks) =
                          Cardinality({ i \in DOMAIN staticFiles :
                                            staticFiles[i] \notin disk }))
    /\ (ProbeFailed ~> pc \in { "report", "done" })

\* C2 (witness): the probe failed, the run is over, and both static files
\* were missing and reported.
C2_Witness ==
    /\ ProbeFailed
    /\ pc = "done"
    /\ disk \cap Range(staticFiles) = {}
    /\ Len(brokenLinks) = Len(staticFiles)

\* C3: every run reaches displayResults, exactly once, and only after the
\* loop over the seed pages is exhausted and checkStaticFiles has run.
C3_AlwaysReportsOnce ==
    /\ <>(displayed = 1)
    /\ [](displayed <= 1)
    /\ [][displayed' # displayed =>
              /\ pc = "report"
              /\ pageIdx > Len(Pages)
              /\ links = << >>]_vars

\* C3 (witness): the report was produced in a run with a failed seed page, a
\* link whose check threw and a missing file.
C3_Witness ==
    /\ displayed = 1
    /\ \E f, g, h \in Findings :
          f.type = "page" /\ g.status = "TIMEOUT" /\ h.type = "file"

\* C4: a seed page answered with a non-ok status gets exactly one 'page'
\* Finding with that status and the seed path as page and link, none of its
\* links is extracted or checked, and the loop goes on to the next seed
\* page, as it does when the fetch throws; with a running server every seed
\* page is fetched.
C4_BrokenSeedPage ==
    /\ [][(PageStep /\ response'.kind = "response" /\ ~ok(response'.status)) =>
              /\ brokenLinks' = Append(brokenLinks,
                     [page |-> Pages[pageIdx], link |-> Pages[pageIdx],
                      status |-> response'.status, type |-> "page"])
              /\ links' = << >> /\ checkedLinks' = checkedLinks
              /\ requests' = requests
              /\ pc' = "pages" /\ pageIdx' = pageIdx + 1]_vars
    /\ [][(PageStep /\ response'.kind = "throw") =>
              /\ pc' = "pages" /\ pageIdx' = pageIdx + 1
              /\ links' = << >> /\ requests' = requests]_vars
    /\ []((serverRunning /\ pc \in { "report", "done" }) =>
              /\ Cardinality(GetRequests) = 1 + Len(Pages)
              /\ \A i \in DOMAIN Pages :
                     \E k \in GetRequests :
                         k > 1 /\ requests[k].url = BASE_URL \o Pages[i])

\* C4 (witness): the first seed page was answered 404 and reported, and a
\* link of the second seed page was checked afterwards.
C4_Witness ==
    /\ pc = "done"
    /\ brokenLinks # << >>
    /\ brokenLinks[1] = [page |-> Pages[1], link |-> Pages[1],
                         status |-> "404", type |-> "page"]
    /\ HeadRequests # {}

\* C5: with a running server, every seed page that could not be retrieved,
\* by a non-ok response or by a thrown fetch, has a Finding naming it.
C5_UnreachablePageHasFinding ==
    [][(PageStep /\ (response'.kind = "throw" \/ ~ok(response'.status))) =>
           \E k \in DOMAIN brokenLinks' :
               brokenLinks'[k].page = Pages[pageIdx]]_vars

\* C6: the outcome of a link's check determines its Finding: none for an ok
\* response, one 'link' Finding with the response status for a non-ok
\* response, one 'link' Finding with status 'TIMEOUT' and the error message
\* for a throw, each with the source page and the normalized link; in every
\* case the loop goes on with the remaining links, and a link leaves the
\* loop only checked.
C6_LinkOutcomeDeterminesFinding ==
    /\ [][LinkStep =>
              LET r == response'
                  src == Pages[pageIdx]
                  n == normalizeLink(Head(links))
              IN  /\ (r.kind = "response" /\ ok(r.status)) =>
                         brokenLinks' = brokenLinks
                  /\ (r.kind = "response" /\ ~ok(r.status)) =>
                         brokenLinks' = Append(brokenLinks,
                             [page |-> src, link |-> n,
                              status |-> r.status, type |-> "link"])
                  /\ r.kind = "throw" =>
                         brokenLinks' = Append(brokenLinks,
                             [page |-> src, link |-> n, status |-> "TIMEOUT",
                              type |-> "link", error |-> r.message])
                  /\ links' = Tail(links)
                  /\ pc' = "links"]_vars
    /\ [][(pc \in { "links", "link" } /\ links' # links) =>
              /\ links' = Tail(links)
              /\ Head(links) \in checkedLinks']_vars
    /\ [](pc = "pages" => links = << >>)

\* C6 (witness): the check of a page's first link threw, was reported as
\* 'TIMEOUT' with the normalized link, and the page's second link was
\* checked after it.
C6_Witness ==
    /\ pc = "links"
    /\ links = << >>
    /\ Cardinality(checkedLinks) = 2
    /\ Len(brokenLinks) = 1
    /\ brokenLinks[1].status = "TIMEOUT"
    /\ brokenLinks[1].link = "/x"
    /\ "/blog-monakit/x" \in checkedLinks
    /\ response.kind = "response"

\* C7: checkStaticFiles tests every file of FILES_TO_CHECK and reports
\* exactly the missing ones as 'file' Findings with status 'NOT_FOUND'.
C7_SeedFilesChecked ==
    pc \in { "report", "done" } =>
        \A i \in DOMAIN FILES_TO_CHECK :
            FILES_TO_CHECK[i] \notin disk <=>
                fileFinding(FILES_TO_CHECK[i]) \in Findings

---------------------------------------------------------------------------
(* Properties of normalizeLink *)

\* C8: normalizeLink is idempotent.
C8_NormalizeIdempotent ==
    (once # << >> /\ twice # << >>) => twice[1] = once[1]

\* C9: for a path p that begins with '/', the base path followed by p
\* normalizes to the same link as p; and a link that starts with the base
\* path prefix '/blog-monakit/' is normalized to what follows the base path.
C9_PrefixedEqualsBare ==
    /\ (startsWith(raw, "/") /\ once # << >> /\ prefixed # << >>) =>
           prefixed[1] = once[1]
    /\ (startsWith(raw, BASE_PATH \o "/") /\ once # << >>) =>
           once[1] = SubSeq(raw, Len(BASE_PATH) + 1, Len(raw))

---------------------------------------------------------------------------
(* Properties of extractLinks *)

\* the forms of href the extractor is to keep: the base path prefix, a
\* single leading '/', './' or '../'
KeptForm(h) ==
    \/ startsWith(h, BASE_PATH \o "/")
    \/ (startsWith(h, "/") /\ ~startsWith(h, "//"))
    \/ startsWith(h, "./")
    \/ startsWith(h, "../")

\* C10: extractLinks keeps an href value exactly when it starts with the
\* base path prefix, a single leading '/', './' or '../', and returns
\* nothing else.
C10_KeepsExactlyInternalForms ==
    extracted # << >> =>
        /\ \A i \in DOMAIN hrefs :
               hrefs[i] \in Range(extracted[1]) <=> KeptForm(hrefs[i])
        /\ Range(extracted[1]) \subseteq Range(hrefs)


---------------------------------------------------------------------------
(* Properties of the Findings and of the visited set *)

\* C11: extractLinks returns the distinct internal hrefs of a page once
\* each, so that one page never produces two Findings for the same link: no
\* two 'link' Findings have the same page and the same link.
C11_OnePageOneFindingPerLink ==
    \A i, j \in DOMAIN brokenLinks :
        (/\ brokenLinks[i].type = "link" /\ brokenLinks[j].type = "link"
         /\ brokenLinks[i].page = brokenLinks[j].page
         /\ brokenLinks[i].link = brokenLinks[j].link) => i = j

\* C12: no retries: a HEAD request is never issued for a link whose check
\* has already failed in this run, that is, to the URL of a link some
\* 'link' Finding names.
C12_FailedLinkNeverRequestedAgain ==
    [][\A k \in DOMAIN requests' :
           (k \notin DOMAIN requests /\ requests'[k].method = "HEAD") =>
               ~\E f \in Findings :
                    /\ f.type = "link"
                    /\ BASE_URL \o f.link = requests'[k].url]_vars


\* s is an initial segment of t
IsPrefix(s, t) == Len(s) <= Len(t) /\ SubSeq(t, 1, Len(s)) = s

\* the place of a Finding in the run: the position of its seed page in the
\* seed list for a 'page' or 'link' Finding, past the last seed page for a
\* 'file' Finding
Phase(f) ==
    IF f.type = "file" THEN Len(Pages) + 1
    ELSE CHOOSE i \in DOMAIN Pages : Pages[i] = f.page

\* the lines of the console of one kind, in the order printed
LinesOf(kind) ==
    LET Pick[k \in 0..Len(console)] ==
            IF k = 0 THEN << >>
            ELSE IF console[k].line = kind
                 THEN Append(Pick[k - 1], console[k])
                 ELSE Pick[k - 1]
    IN  Pick[Len(console)]

\* C13: brokenLinks is append-only (every step leaves what is recorded in
\* place and unchanged), the Findings of an earlier seed page precede those
\* of a later one and all 'page' and 'link' Findings precede the 'file'
\* Findings, and displayResults lists the Findings in that order.
C13_FindingsAppendOnlyInOrder ==
    /\ [][IsPrefix(brokenLinks, brokenLinks')]_vars
    /\ [](\A i, j \in DOMAIN brokenLinks :
             i < j => Phase(brokenLinks[i]) <= Phase(brokenLinks[j]))
    /\ [](displayed = 1 =>
             /\ Len(LinesOf("type")) = Len(brokenLinks)
             /\ Len(LinesOf("page")) = Len(brokenLinks)
             /\ Len(LinesOf("link")) = Len(brokenLinks)
             /\ Len(LinesOf("status")) = Len(brokenLinks)
             /\ \A k \in DOMAIN brokenLinks :
                   /\ LinesOf("type")[k].index = k
                   /\ LinesOf("type")[k].value = brokenLinks[k].type
                   /\ LinesOf("page")[k].value = brokenLinks[k].page
                   /\ LinesOf("link")[k].value = brokenLinks[k].link
                   /\ LinesOf("status")[k].value = brokenLinks[k].status)

\* C13 (witness): the report lists, in this order, a Finding of the first
\* seed page, a Finding of the second seed page and a missing file.
C13_Witness ==
    /\ displayed = 1
    /\ Len(brokenLinks) = 3
    /\ brokenLinks[1].page = Pages[1]
    /\ brokenLinks[2].page = Pages[2] /\ brokenLinks[2].type = "link"
    /\ brokenLinks[3].type = "file"
    /\ LinesOf("link")[3].value = brokenLinks[3].link

\* the number of console lines of one kind
CountOf(kind) == Cardinality({ k \in DOMAIN console : console[k].line = kind })

\* C14: the report has the success line exactly when brokenLinks is empty,
\* and then the success line is its last line; otherwise it has one count
\* line giving Len(brokenLinks), one block per Finding, and ends with the
\* fixed hints. A Finding is recorded only by a seed page answered non-ok,
\* by a link whose check failed or by a missing static file, so a run with
\* none of these ends with the success line and no Findings.
C14_SuccessIffNoFindings ==
    /\ [](displayed = 1 =>
             /\ CountOf("success") > 0 <=> brokenLinks = << >>
             /\ brokenLinks = << >> =>
                   /\ CountOf("success") = 1
                   /\ console[Len(console)] = [line |-> "success"]
                   /\ CountOf("count") = 0 /\ CountOf("type") = 0
                   /\ CountOf("hint") = 0
             /\ brokenLinks # << >> =>
                   /\ CountOf("count") = 1
                   /\ \A k \in DOMAIN console :
                         console[k].line = "count" =>
                             console[k].count = Len(brokenLinks)
                   /\ CountOf("type") = Len(brokenLinks)
                   /\ CountOf("blank") = Len(brokenLinks)
                   /\ Len(console) >= 4
                   /\ SubSeq(console, Len(console) - 3, Len(console)) =
                          << [line |-> "hints"],
                             [line |-> "hint", value |-> "missing page"],
                             [line |-> "hint", value |-> "404"],
                             [line |-> "hint", value |-> "timeout"] >>
                   /\ CountOf("hint") = 3)
    /\ [][brokenLinks' # brokenLinks =>
              \/ PageStep /\ response'.kind = "response"
                          /\ ~ok(response'.status)
              \/ LinkStep /\ (response'.kind = "throw" \/ ~ok(response'.status))
              \/ /\ pc = "pages" /\ pc' = "report"
                 /\ ~(Range(staticFiles) \subseteq disk')]_vars

\* C14 (witness): the server runs, every seed page was fetched, the last one
\* with an ok response, no page had an internal link, both static files
\* exist, and the report ends with the success line.
C14_Witness ==
    /\ pc = "done"
    /\ serverRunning
    /\ Cardinality(GetRequests) = 1 + Len(Pages)
    /\ response.kind = "response" /\ ok(response.status)
    /\ HeadRequests = {} /\ firstPage = << >>
    /\ Range(staticFiles) \subseteq disk
    /\ brokenLinks = << >>
    /\ console = << [line |-> "title"], [line |-> "rule"],
                    [line |-> "success"] >>


\* C15: process.exit(1) is called only from the catch block of run, the
\* catch block is entered only by an error thrown out of checkStaticFiles
\* and never by the step in which the probe, a seed page's fetch or text,
\* or a link's check settles, whatever the outcome; a run that has printed
\* its report has finished without entering the catch block, whatever the
\* Findings.
C15_ExitOnlyOnUnexpectedError ==
    /\ [][pc' = "exit1" => pc \in { "catch", "exit1" }]_vars
    /\ [][(pc' = "catch" /\ pc # "catch") =>
              /\ pc = "pages" /\ pageIdx > Len(Pages)
              /\ requests' = requests /\ response' = response]_vars
    /\ [][(pc \in { "start", "probe", "page", "text", "links", "link",
                    "report" }) => pc' \notin { "catch", "exit1" }]_vars
    /\ [](displayed = 1 => pc = "done")
    /\ [](pc \in { "catch", "exit1" } => displayed = 0)

\* C15 (witness): the run exited with status 1 after process.cwd() threw,
\* having recorded a seed page answered non-ok and a link whose check threw.
C15_Witness ==
    /\ pc = "exit1"
    /\ console = << [line |-> "fatal"] >>
    /\ \E f, g \in Findings : f.type = "page" /\ g.status = "TIMEOUT"

\* C15 (witness): a run with the probe failed and both static files missing
\* completed with its report of the two Findings.
C15_CompletedWitness ==
    /\ pc = "done"
    /\ ~serverRunning
    /\ Len(brokenLinks) = 2
    /\ CountOf("fatal") = 0
    /\ CountOf("count") = 1


\* the positions in brokenLinks of the 'link' Findings
LinkFindings == { k \in DOMAIN brokenLinks : brokenLinks[k].type = "link" }

\* C16: firstPage[l] is the first seed page, in seed-list order, whose fetch
\* succeeded and whose HTML had the raw link l (it is set once, by the first
\* page extractLinks returns l for, and the pages are taken in order). A
\* HEAD request for l is issued only while that page is processed, so a
\* Finding for l names that page; at a later page referencing l the loop
\* passes over it with no request and no Finding.
C16_FindingNamesFirstPage ==
    /\ [][/\ pageIdx' >= pageIdx
          /\ \A l \in DOMAIN firstPage :
                /\ l \in DOMAIN firstPage'
                /\ firstPage'[l] = firstPage[l]
          /\ \A l \in DOMAIN firstPage' :
                l \notin DOMAIN firstPage =>
                    /\ firstPage'[l] = pageIdx
                    /\ l \notin checkedLinks]_vars
    /\ [][(pc = "links" /\ pc' = "link") =>
              /\ Head(links) \notin checkedLinks
              /\ firstPage[Head(links)] = pageIdx]_vars
    /\ [][(LinkStep /\ brokenLinks' # brokenLinks) =>
              /\ Len(brokenLinks') = Len(brokenLinks) + 1
              /\ brokenLinks'[Len(brokenLinks')].page =
                     Pages[firstPage[Head(links)]]
              /\ brokenLinks'[Len(brokenLinks')].link =
                     normalizeLink(Head(links))]_vars
    /\ [][(/\ pc = "links" /\ links # << >>
           /\ firstPage[Head(links)] < pageIdx) =>
              /\ brokenLinks' = brokenLinks
              /\ requests' = requests
              /\ links' = Tail(links)
              /\ pc' = "links"]_vars

\* C16 (witness): the second seed page references a link the first seed
\* page had; its check failed then and its one Finding names the first page.
C16_Witness ==
    /\ pc = "links"
    /\ pageIdx = 2
    /\ links # << >>
    /\ Head(links) \in checkedLinks
    /\ firstPage[Head(links)] = 1
    /\ Cardinality(HeadRequests) = 1
    /\ brokenLinks = << [page |-> Pages[1],
                         link |-> normalizeLink(Head(links)),
                         status |-> "404", type |-> "link"] >>

\* C17: checkedLinks only grows; the step that issues a HEAD request for a
\* link has put the link in checkedLinks; there are as many HEAD requests as
\* links in checkedLinks; and there are at most as many 'link' Findings.
C17_VisitedSetBounds ==
    /\ [][checkedLinks \subseteq checkedLinks']_vars
    /\ [][\A k \in DOMAIN requests' :
              (k \notin DOMAIN requests /\ requests'[k].method = "HEAD") =>
                  /\ Head(links) \in checkedLinks'
                  /\ Head(links) \notin checkedLinks
                  /\ requests'[k].url =
                         BASE_URL \o normalizeLink(Head(links))]_vars
    /\ [](Cardinality(HeadRequests) = Cardinality(checkedLinks))
    /\ [](Cardinality(LinkFindings) <= Cardinality(checkedLinks))

\* C17 (witness): two links are in checkedLinks, the HEAD request of the
\* second is in flight, and the check of the first has been reported.
C17_Witness ==
    /\ pc = "link"
    /\ Cardinality(checkedLinks) = 2
    /\ Cardinality(HeadRequests) = 2
    /\ Cardinality(LinkFindings) = 1

=============================================================================
